---- MODULE Spec2Model ----
(***************************************************************************)
(* Model of capstone-agent/functions/main.py: the agentProxy HTTP handler  *)
(* and the _format_agent_message prompt formatter.                         *)
(*                                                                         *)
(* Text is a sequence of tokens.  The characters the code inspects ('{',   *)
(* '}', '"', ':', ',', '\', ' ', newline, digits) are one token each; a    *)
(* run of ordinary characters (a literal of the source, a word of prose)   *)
(* may be one token.                                                       *)
(***************************************************************************)
EXTENDS Integers, Sequences, FiniteSets, TLC

\* ------------------------------------------------------------------ bounds
MaxOutLen == 7
MaxQueryLen == 4

\* ----------------------------------------------------------- JSON values
\* A JSON value as Python holds it after parsing.  Every value is a record
\* of the same shape: t the type, s the text of a string, n the number,
\* m the members of an object (or the items of a list, under key <<>>).
JNull == [t |-> "null", s |-> <<>>, n |-> 0, m |-> <<>>]
JNum(n) == [t |-> "num", s |-> <<>>, n |-> n, m |-> <<>>]
JStr(s) == [t |-> "str", s |-> s, n |-> 0, m |-> <<>>]
JObj(m) == [t |-> "obj", s |-> <<>>, n |-> 0, m |-> m]
JList(m) == [t |-> "list", s |-> <<>>, n |-> 0, m |-> m]
Member(k, v) == [k |-> k, v |-> v]

\* Python truthiness of a parsed JSON value (`not payload`, `if constraint`).
Truthy(v) ==
    CASE v.t = "null" -> FALSE
      [] v.t = "num" -> v.n # 0
      [] v.t = "str" -> v.s # <<>>
      [] OTHER -> v.m # <<>>

\* dict lookup helpers
HasKey(m, k) == \E i \in 1..Len(m) : m[i].k = k
GetKey(m, k) == m[CHOOSE i \in 1..Len(m) : m[i].k = k].v
\* d[k] = v : an existing key keeps its place and takes the new value
DictSet(m, k, v) ==
    IF HasKey(m, k)
    THEN [i \in 1..Len(m) |-> IF m[i].k = k THEN Member(k, v) ELSE m[i]]
    ELSE Append(m, Member(k, v))

\* `k in v` for a str k: "ok" with the answer, or TypeError for a value that
\* is not a container.  A str contains k when k is one of its tokens.
InResult(k, v) ==
    CASE v.t = "obj" -> [raises |-> FALSE, has |-> HasKey(v.m, k)]
      [] v.t = "list" -> [raises |-> FALSE,
                          has |-> \E i \in 1..Len(v.m) : v.m[i].v = JStr(k)]
      [] v.t = "str" -> [raises |-> FALSE,
                         has |-> \E i \in 1..Len(v.s) : <<v.s[i]>> = k]
      [] OTHER -> [raises |-> TRUE, has |-> FALSE]

\* `v[k]` for a str k: only a dict can be indexed by a str.
CanIndex(v, k) == v.t = "obj" /\ HasKey(v.m, k)

\* ------------------------------------------------------------ json.loads
Digits == <<"0", "1", "2", "3", "4", "5", "6", "7", "8", "9">>
IsDigit(c) == \E d \in 1..10 : Digits[d] = c
DigitVal(c) == (CHOOSE d \in 1..10 : Digits[d] = c) - 1

ParseFail == [ok |-> FALSE, v |-> JNull, i |-> 0]
ParseOk(v, i) == [ok |-> TRUE, v |-> v, i |-> i]

RECURSIVE SkipWs(_, _)
SkipWs(s, i) ==
    IF i <= Len(s) /\ s[i] \in {" ", "\n"} THEN SkipWs(s, i + 1) ELSE i

\* i is the position after the opening quote
RECURSIVE ParseString(_, _, _)
ParseString(s, i, acc) ==
    IF i > Len(s) THEN ParseFail
    ELSE IF s[i] = "\"" THEN ParseOk(JStr(acc), i + 1)
    ELSE IF s[i] = "\n" THEN ParseFail
    ELSE IF s[i] = "\\"
         THEN IF i + 1 <= Len(s) /\ s[i + 1] \in {"\"", "\\"}
              THEN ParseString(s, i + 2, Append(acc, s[i + 1]))
              ELSE IF i + 1 <= Len(s) /\ s[i + 1] = "n"
              THEN ParseString(s, i + 2, Append(acc, "\n"))
              ELSE ParseFail
    ELSE ParseString(s, i + 1, Append(acc, s[i]))

RECURSIVE ParseNumber(_, _, _)
ParseNumber(s, i, acc) ==
    IF i <= Len(s) /\ IsDigit(s[i])
    THEN ParseNumber(s, i + 1, acc * 10 + DigitVal(s[i]))
    ELSE ParseOk(JNum(acc), i)

RECURSIVE ParseValue(_, _)
RECURSIVE ParseMembers(_, _, _)
\* i is the position where a key's opening quote is expected
ParseMembers(s, i, acc) ==
    IF i > Len(s) \/ s[i] # "\"" THEN ParseFail
    ELSE LET key == ParseString(s, i + 1, <<>>)
         IN  IF ~key.ok THEN ParseFail
             ELSE LET j == SkipWs(s, key.i)
                  IN  IF j > Len(s) \/ s[j] # ":" THEN ParseFail
                      ELSE LET val == ParseValue(s, SkipWs(s, j + 1))
                           IN  IF ~val.ok THEN ParseFail
                               ELSE LET e == SkipWs(s, val.i)
                                        acc2 == DictSet(acc, key.v.s, val.v)
                                    IN  IF e > Len(s) THEN ParseFail
                                        ELSE IF s[e] = "}"
                                        THEN ParseOk(JObj(acc2), e + 1)
                                        ELSE IF s[e] = ","
                                        THEN ParseMembers(s, SkipWs(s, e + 1), acc2)
                                        ELSE ParseFail

ParseValue(s, i) ==
    IF i > Len(s) THEN ParseFail
    ELSE IF s[i] = "{"
         THEN LET j == SkipWs(s, i + 1)
              IN  IF j <= Len(s) /\ s[j] = "}"
                  THEN ParseOk(JObj(<<>>), j + 1)
                  ELSE ParseMembers(s, j, <<>>)
    ELSE IF s[i] = "\"" THEN ParseString(s, i + 1, <<>>)
    ELSE IF s[i] = "0" THEN ParseOk(JNum(0), i + 1)
    ELSE IF IsDigit(s[i]) THEN ParseNumber(s, i, 0)
    ELSE IF s[i] = "null" THEN ParseOk(JNull, i + 1)
    ELSE ParseFail

\* json.loads(s): ok is FALSE where Python raises json.JSONDecodeError
JsonLoads(s) ==
    LET r == ParseValue(s, SkipWs(s, 1))
    IN  IF r.ok /\ SkipWs(s, r.i) = Len(s) + 1 THEN r ELSE ParseFail

\* ------------------------------------------------------------ json.dumps
RECURSIVE NumText(_)
NumText(n) ==
    IF n < 10 THEN <<Digits[n + 1]>> ELSE NumText(n \div 10) \o <<Digits[(n % 10) + 1]>>

RECURSIVE Escape(_)
Escape(s) ==
    IF s = <<>> THEN <<>>
    ELSE (CASE Head(s) = "\"" -> <<"\\", "\"">>
            [] Head(s) = "\\" -> <<"\\", "\\">>
            [] Head(s) = "\n" -> <<"\\", "n">>
            [] OTHER -> <<Head(s)>>) \o Escape(Tail(s))

Quoted(s) == <<"\"">> \o Escape(s) \o <<"\"">>

RECURSIVE JsonDumps(_)
RECURSIVE DumpMembers(_, _)
DumpMembers(m, i) ==
    IF i > Len(m) THEN <<>>
    ELSE (IF i > 1 THEN <<",", " ">> ELSE <<>>)
         \o Quoted(m[i].k) \o <<":", " ">> \o JsonDumps(m[i].v)
         \o DumpMembers(m, i + 1)

RECURSIVE DumpItems(_, _)
DumpItems(m, i) ==
    IF i > Len(m) THEN <<>>
    ELSE (IF i > 1 THEN <<",", " ">> ELSE <<>>)
         \o JsonDumps(m[i].v) \o DumpItems(m, i + 1)

JsonDumps(v) ==
    CASE v.t = "null" -> <<"null">>
      [] v.t = "num" -> NumText(v.n)
      [] v.t = "str" -> Quoted(v.s)
      [] v.t = "obj" -> <<"{">> \o DumpMembers(v.m, 1) \o <<"}">>
      [] OTHER -> <<"[">> \o DumpItems(v.m, 1) \o <<"]">>

\* ------------------------------------------------------ str.find / rfind
\* 0-based index of the first (last) occurrence of c in s, or -1
RECURSIVE FindFrom(_, _, _)
FindFrom(s, c, i) ==
    IF i > Len(s) THEN -1
    ELSE IF s[i] = c THEN i - 1
    ELSE FindFrom(s, c, i + 1)

Find(s, c) == FindFrom(s, c, 1)

RECURSIVE RFindFrom(_, _, _)
RFindFrom(s, c, i) ==
    IF i < 1 THEN -1
    ELSE IF s[i] = c THEN i - 1
    ELSE RFindFrom(s, c, i - 1)

RFind(s, c) == RFindFrom(s, c, Len(s))

\* s[a : b] for 0 <= a <= b <= len(s)
Slice(s, a, b) == SubSeq(s, a + 1, b)

\* ------------------------------------------------- Python str() / repr()
RECURSIVE PyRepr(_)
RECURSIVE ReprMembers(_, _, _)
ReprMembers(m, i, isDict) ==
    IF i > Len(m) THEN <<>>
    ELSE (IF i > 1 THEN <<",", " ">> ELSE <<>>)
         \o (IF isDict THEN <<"'">> \o m[i].k \o <<"'", ":", " ">> ELSE <<>>)
         \o PyRepr(m[i].v) \o ReprMembers(m, i + 1, isDict)

PyRepr(v) ==
    CASE v.t = "null" -> <<"None">>
      [] v.t = "num" -> NumText(v.n)
      [] v.t = "str" -> <<"'">> \o v.s \o <<"'">>
      [] v.t = "obj" -> <<"{">> \o ReprMembers(v.m, 1, TRUE) \o <<"}">>
      [] OTHER -> <<"[">> \o ReprMembers(v.m, 1, FALSE) \o <<"]">>

\* str(v), also what an f-string puts in place of {v}
PyStr(v) == IF v.t = "str" THEN v.s ELSE PyRepr(v)

\* ------------------------------------------------------- textwrap.dedent
\* the lines of a text, without their newlines: line k runs from after the
\* (k-1)-th newline to before the k-th
NewlineAt(s, k) ==
    LET nl == {i \in 1..Len(s) : s[i] = "\n"}
    IN  IF k = 0 THEN 0
        ELSE IF k > Cardinality(nl) THEN Len(s) + 1
        ELSE CHOOSE p \in nl : Cardinality({q \in nl : q < p}) = k - 1

SplitLines(s) ==
    LET count == Cardinality({i \in 1..Len(s) : s[i] = "\n"}) + 1
    IN  [k \in 1..count |-> SubSeq(s, NewlineAt(s, k - 1) + 1, NewlineAt(s, k) - 1)]

RECURSIVE JoinFrom(_, _)
JoinFrom(ls, i) ==
    IF i > Len(ls) THEN <<>>
    ELSE (IF i > 1 THEN <<"\n">> ELSE <<>>) \o ls[i] \o JoinFrom(ls, i + 1)

JoinLines(ls) == JoinFrom(ls, 1)

IsBlank(line) == \A i \in 1..Len(line) : line[i] = " "

RECURSIVE LeadingSpaces(_)
LeadingSpaces(line) ==
    IF line # <<>> /\ Head(line) = " " THEN 1 + LeadingSpaces(Tail(line)) ELSE 0

\* the common leading whitespace of the lines that hold text (spaces only:
\* the common prefix is the shortest indentation)
Margin(ls) ==
    LET idx == {i \in 1..Len(ls) : ~IsBlank(ls[i])}
    IN  IF idx = {} THEN 0
        ELSE LeadingSpaces(ls[CHOOSE i \in idx :
                 \A j \in idx : LeadingSpaces(ls[i]) <= LeadingSpaces(ls[j])])

\* textwrap.dedent: whitespace-only lines become empty, then the common
\* margin is removed from every line
Dedent(text) ==
    LET ls == SplitLines(text)
        norm == [i \in 1..Len(ls) |-> IF IsBlank(ls[i]) THEN <<>> ELSE ls[i]]
        mg == Margin(norm)
    IN  JoinLines([i \in 1..Len(norm) |->
                     IF norm[i] = <<>> THEN <<>>
                     ELSE SubSeq(norm[i], mg + 1, Len(norm[i]))])

IsSpace(c) == c \in {" ", "\n"}

\* str.strip()
Strip(s) ==
    LET keep == {i \in 1..Len(s) : ~IsSpace(s[i])}
    IN  IF keep = {} THEN <<>>
        ELSE SubSeq(s, CHOOSE i \in keep : \A j \in keep : i <= j,
                       CHOOSE i \in keep : \A j \in keep : i >= j)

\* ------------------------------------------------ _format_agent_message
IndentWidth == 8
Indent == [i \in 1..IndentWidth |-> " "]
TLine(toks) == Indent \o toks \o <<"\n">>

Placeholder == <<"No additional constraint.">>

\* the f-string of the source after interpolation, before dedent
Template(query, constraint, session_id) ==
    LET constraint_section == IF Truthy(constraint) THEN PyStr(constraint)
                              ELSE Placeholder
    IN  <<"\n">>
        \o TLine(<<"SESSION_ID: ">> \o session_id)
        \o <<"\n">>
        \o TLine(<<"OBSERVE:">>)
        \o TLine(<<"- Capture the incoming request exactly as received.">>)
        \o TLine(<<"- Request: ", "\"">> \o PyStr(query) \o <<"\"">>)
        \o TLine(<<"- Constraint: ", "\"">> \o constraint_section \o <<"\"">>)
        \o <<"\n">>
        \o TLine(<<"REFLECT:">>)
        \o TLine(<<"- Review the observation for missing context (missing steps, conflicting instructions).">>)
        \o TLine(<<"- Call out any tensions or nutrition trade-offs before planning.">>)
        \o <<"\n">>
        \o TLine(<<"LOOP:">>)
        \o TLine(<<"- Produce a corrected cooking plan that explicitly mentions how you honored the constraint.">>)
        \o TLine(<<"- Highlight a single self-correction you made after your reflection.">>)
        \o TLine(<<"- **The ONLY output you provide MUST be a valid, unadulterated JSON object.**">>)
        \o TLine(<<"- Answer in JSON with keys: plan (array of steps), constraint_ack (string), self_corrections (string), session_id (string).">>)
        \o TLine(<<"- Close the loop by confirming the plan is ready to execute.">>)
        \o Indent

FormatAgentMessage(query, constraint, session_id) ==
    Strip(Dedent(Template(query, constraint, session_id)))

\* ------------------------------------------------------------- responses
\* https_fn.Response(body, status=200, headers=...): headers holds only the
\* headers the handler passes.  NoResponse: the handler has returned nothing.
Response(status, body, headers) ==
    [status |-> status, body |-> body, headers |-> headers]
NoResponse == Response(0, <<>>, {})

ApiBaseUrl == <<"https://us-central1-aiplatform.googleapis.com/v1/">>

JsonHeaders ==
    {<<"Content-Type", "application/json">>,
     <<"Access-Control-Allow-Origin", "*">>}

OptionsResponse ==
    Response(200, <<>>,
             {<<"Access-Control-Allow-Origin", "*">>,
              <<"Access-Control-Allow-Methods", "POST, OPTIONS">>,
              <<"Access-Control-Allow-Headers", "Content-Type">>})

MethodNotAllowedResponse == Response(405, <<"Method Not Allowed">>, {})

MissingKeysError == <<"Missing 'query' or 'constraint' in JSON body.">>

\* the 400 built without the CORS header
BadRequestResponse_NoCors ==
    Response(400, JsonDumps(JObj(<<Member(<<"error">>, JStr(MissingKeysError))>>)),
             {<<"Content-Type", "application/json">>})

BadRequestResponse ==
    Response(400, JsonDumps(JObj(<<Member(<<"error">>, JStr(MissingKeysError))>>)),
             JsonHeaders)

ConfigError ==
    <<"Configuration Error: Agent ID environment variable (VERTEX_AGENT_ID) not set. Check deployment command.">>

ConfigErrorResponse ==
    Response(500, JsonDumps(JObj(<<Member(<<"error">>, JStr(ConfigError))>>)),
             JsonHeaders)

\* the except block: api_response is added when `response` was bound
UpstreamErrorResponse(details, api_url, hasResponse, text) ==
    LET base == <<Member(<<"error">>, JStr(<<"Failed to call Vertex AI Agent Engine.">>)),
                  Member(<<"details">>, JStr(details)),
                  Member(<<"api_url">>, JStr(api_url))>>
    IN  Response(500,
                 JsonDumps(JObj(IF hasResponse
                                THEN DictSet(base, <<"api_response">>, JStr(text))
                                ELSE base)),
                 JsonHeaders)

UnparsableNote == <<"Agent returned unparsable text response">>
UnexpectedNote == <<"Unexpected response format from agent">>

\* the fallback built from the text between the braces, not from the output
FallbackResponse_Span(output) ==
    Response(200,
             JsonDumps(JObj(<<Member(<<"response">>,
                                     JStr(IF Find(output.s, "{") # -1
                                             /\ RFind(output.s, "}") > Find(output.s, "{")
                                          THEN SubSeq(output.s, Find(output.s, "{") + 1,
                                                      RFind(output.s, "}") + 1)
                                          ELSE PyStr(output))),
                              Member(<<"note">>, JStr(UnparsableNote))>>)),
             JsonHeaders)

FallbackResponse(output) ==
    Response(200,
             JsonDumps(JObj(<<Member(<<"response">>, JStr(PyStr(output))),
                              Member(<<"note">>, JStr(UnparsableNote))>>)),
             JsonHeaders)

UnexpectedFormatResponse(response_data) ==
    Response(200,
             JsonDumps(JObj(<<Member(<<"response">>, JStr(PyStr(response_data))),
                              Member(<<"note">>, JStr(UnexpectedNote))>>)),
             JsonHeaders)

AgentJsonResponse(agent_json) == Response(200, JsonDumps(agent_json), JsonHeaders)

\* --------------------------------------------------- the request, parsed
\* A body as received: json is FALSE for text that is not JSON.
NotJson == [json |-> FALSE, v |-> JNull]
JsonBody(v) == [json |-> TRUE, v |-> v]

\* req.get_json(silent=True): None for a body that is not JSON
GetJson(body) == IF body.json THEN body.v ELSE JNull

\* `not payload or not all(k in payload for k in ["query", "constraint"])`
\* followed by payload["query"], payload["constraint"]:
\* "reject" (the 400 branch), "raise" (TypeError leaves the handler), "ok"
Validate(payload) ==
    IF ~Truthy(payload) THEN "reject"
    ELSE IF InResult(<<"query">>, payload).raises THEN "raise"
    ELSE IF ~InResult(<<"query">>, payload).has THEN "reject"
    ELSE IF ~InResult(<<"constraint">>, payload).has THEN "reject"
    ELSE IF ~CanIndex(payload, <<"query">>) THEN "raise"
    ELSE "ok"

\* os.environ.get("VERTEX_AGENT_ID"): environ is a set of <<name, value>>
EnvGet(environ, name) ==
    IF \E e \in environ : e[1] = name
    THEN [found |-> TRUE, val |-> (CHOOSE e \in environ : e[1] = name)[2]]
    ELSE [found |-> FALSE, val |-> <<>>]

\* `AGENT_ENDPOINT is None` in place of `not AGENT_ENDPOINT`
EndpointMissing_OnlyUnset(environ) == ~EnvGet(environ, "VERTEX_AGENT_ID").found

\* `not AGENT_ENDPOINT`
EndpointMissing(environ) ==
    LET e == EnvGet(environ, "VERTEX_AGENT_ID") IN ~e.found \/ e.val = <<>>

ApiUrl(environ) ==
    ApiBaseUrl \o EnvGet(environ, "VERTEX_AGENT_ID").val \o <<":query">>

\* ------------------------------------------------- the upstream response
\* session.post: a transport error, or a response with status, text and the
\* outcome of response.json() on that text
NoUpstream == [kind |-> "none", status |-> 0, text |-> <<>>, data |-> NotJson]
NetworkError == [kind |-> "neterr", status |-> 0, text |-> <<>>, data |-> NotJson]
UpstreamResponse(status, text, data) ==
    [kind |-> "resp", status |-> status, text |-> text, data |-> data]

\* response.raise_for_status() raises for 4xx and 5xx
RaisesForStatus(status) == status >= 400 /\ status < 600

\* the close of the first balanced pair, 1-based, 0 for none
RECURSIVE MatchClose(_, _, _)
MatchClose(s, i, depth) ==
    IF i > Len(s) THEN 0
    ELSE IF s[i] = "{" THEN MatchClose(s, i + 1, depth + 1)
    ELSE IF s[i] = "}" THEN IF depth = 1 THEN i ELSE MatchClose(s, i + 1, depth - 1)
    ELSE MatchClose(s, i + 1, depth)

\* extraction of the first balanced pair in place of first-'{' to last-'}'
ExtractSpan_Balanced(s) ==
    LET start_index == Find(s, "{")
        close == IF start_index = -1 THEN 0 ELSE MatchClose(s, start_index + 2, 1)
    IN  IF start_index # -1 /\ close # 0
        THEN [found |-> TRUE, json_string |-> SubSeq(s, start_index + 1, close)]
        ELSE [found |-> FALSE, json_string |-> <<>>]

\* lines 124-156: the extraction from `output`
ExtractSpan(s) ==
    LET start_index == Find(s, "{")
        end_index == RFind(s, "}")
    IN  IF start_index # -1 /\ end_index # -1 /\ end_index > start_index
        THEN [found |-> TRUE, json_string |-> Slice(s, start_index, end_index + 1)]
        ELSE [found |-> FALSE, json_string |-> <<>>]

ProcessOutput(output) ==
    IF output.t = "str"
    THEN LET span == ExtractSpan(output.s)
         IN  IF span.found /\ JsonLoads(span.json_string).ok
             THEN AgentJsonResponse(JsonLoads(span.json_string).v)
             ELSE FallbackResponse(output)
    ELSE AgentJsonResponse(output)

\* lines 107-183: everything after session.post returned or raised
HandleUpstream(u, api_url) ==
    IF u.kind = "neterr"
    THEN UpstreamErrorResponse(<<"ConnectionError">>, api_url, FALSE, <<>>)
    ELSE IF RaisesForStatus(u.status)
    THEN UpstreamErrorResponse(<<"HTTPError">>, api_url, TRUE, u.text)
    ELSE IF ~u.data.json
    THEN UpstreamErrorResponse(<<"JSONDecodeError">>, api_url, TRUE, u.text)
    ELSE IF InResult(<<"output">>, u.data.v).raises
    THEN UpstreamErrorResponse(<<"TypeError">>, api_url, TRUE, u.text)
    ELSE IF ~InResult(<<"output">>, u.data.v).has
    THEN UnexpectedFormatResponse(u.data.v)
    ELSE IF ~CanIndex(u.data.v, <<"output">>)
    THEN UpstreamErrorResponse(<<"TypeError">>, api_url, TRUE, u.text)
    ELSE ProcessOutput(GetKey(u.data.v.m, <<"output">>))

\* ------------------------------------------------------------------ state
VARIABLES
    environ,    \* os.environ of the deployed function
    pc,         \* "idle", "handle", "call", "process", "done"
    req,        \* the request being handled: method and body
    cred,       \* google.auth.default in this request: "unset", "ok", "error"
    sid,        \* session_id
    message,    \* formatted_message, request_body["input"]["message"]
    apiUrl,     \* API_URL
    upstream,   \* what session.post gave
    postCalls,  \* session.post calls made for this request
    resp,       \* the response returned
    exc         \* the exception that left the handler, "" for none

vars == <<environ, pc, req, cred, sid, message, apiUrl, upstream, postCalls, resp, exc>>

\* ----------------------------------------------------------------- inputs
SeqsUpTo(S, n) == UNION {[1..k -> S] : k \in 0..n}

OutAlphabet == {"{", "}", "\"", ":", "1"}
OutputStrings == SeqsUpTo(OutAlphabet, MaxOutLen)

QueryAlphabet == {"a", " ", "\n"}
QueryStrings == SeqsUpTo(QueryAlphabet, MaxQueryLen)

AgentId == <<"projects/p/locations/us-central1/reasoningEngines/1">>
Environs ==
    {{}, {<<"VERTEX_AGENT_ID", <<>>>>}, {<<"VERTEX_AGENT_ID", AgentId>>}}

Methods == {"OPTIONS", "POST", "GET", "PUT"}
SessionIds == {<<"s1">>, <<"s2">>}

Payload(query, constraint) ==
    JObj(<<Member(<<"query">>, query), Member(<<"constraint">>, constraint)>>)

Bodies ==
    {NotJson,
     JsonBody(JNull), JsonBody(JNum(0)), JsonBody(JNum(5)),
     JsonBody(JStr(<<"hello">>)), JsonBody(JStr(<<"query", " ", "constraint">>)),
     JsonBody(JList(<<Member(<<>>, JNum(1))>>)),
     JsonBody(JList(<<Member(<<>>, JStr(<<"query">>)),
                      Member(<<>>, JStr(<<"constraint">>))>>)),
     JsonBody(JObj(<<>>)),
     JsonBody(JObj(<<Member(<<"query">>, JStr(<<"soup">>))>>)),
     JsonBody(JObj(<<Member(<<"constraint">>, JStr(<<"vegan">>))>>)),
     JsonBody(Payload(JStr(<<"soup">>), JStr(<<>>))),
     JsonBody(Payload(JStr(<<"soup">>), JStr(<<"vegan">>))),
     JsonBody(Payload(JStr(<<"a", "\n", " ", " ", "b">>), JStr(<<"vegan">>))),
     JsonBody(Payload(JNum(7), JNull))}

SampleOutputs ==
    {JStr(<<>>), JStr(<<"hello">>), JStr(<<"}", "{">>),
     JStr(<<"Sure!", " ", "{", "}", " ", "Thanks.">>),
     JStr(<<"{", "\"", "plan", "\"", ":", "1", "}">>),
     JStr(<<"{", "}", " ", "{", "}">>),
     JNum(3), JNull, JObj(<<Member(<<"plan">>, JNum(1))>>)}

OutputData(output) == JsonBody(JObj(<<Member(<<"output">>, output)>>))

UpstreamData ==
    {NotJson, JsonBody(JNull), JsonBody(JNum(5)),
     JsonBody(JStr(<<"output">>)), JsonBody(JStr(<<"hello">>)),
     JsonBody(JList(<<Member(<<>>, JStr(<<"output">>))>>)),
     JsonBody(JList(<<>>)), JsonBody(JObj(<<>>)),
     JsonBody(JObj(<<Member(<<"result">>, JNum(1))>>))}
    \cup {OutputData(o) : o \in SampleOutputs}

UpstreamOutcomes ==
    {NetworkError}
    \cup {UpstreamResponse(st, <<"error text">>, NotJson) : st \in {403, 500}}
    \cup {UpstreamResponse(200, <<"body text">>, d) : d \in UpstreamData}

\* ----------------------------------------------------------------- actions
\* the function is invoked with a request (max_instances=1: one at a time)
Receive ==
    /\ pc \in {"idle", "done"}
    /\ \E m \in Methods, b \in Bodies :
           req' = [method |-> m, body |-> b]
    /\ pc' = "handle"
    /\ cred' = "unset"
    /\ sid' = <<>>
    /\ message' = <<>>
    /\ apiUrl' = <<>>
    /\ upstream' = NoUpstream
    /\ postCalls' = 0
    /\ resp' = NoResponse
    /\ exc' = ""
    /\ UNCHANGED environ

Return(r) ==
    /\ pc' = "done"
    /\ resp' = r
    /\ UNCHANGED <<exc, cred, sid, message, apiUrl>>

Raise(e, c) ==
    /\ pc' = "done"
    /\ exc' = e
    /\ cred' = c
    /\ UNCHANGED <<resp, sid, message, apiUrl>>

\* the checks of lines 49-83 in validation-first order
Decide_ValidateFirst(method, body, env) ==
    IF Validate(GetJson(body)) = "reject" THEN "400"
    ELSE IF Validate(GetJson(body)) = "raise" THEN "raise"
    ELSE IF method = "OPTIONS" THEN "options"
    ELSE IF method # "POST" THEN "405"
    ELSE IF EndpointMissing(env) THEN "config"
    ELSE "proceed"

\* lines 49-83: the checks in the order the handler makes them
Decide(method, body, env) ==
    IF method = "OPTIONS" THEN "options"
    ELSE IF method # "POST" THEN "405"
    ELSE IF Validate(GetJson(body)) = "reject" THEN "400"
    ELSE IF Validate(GetJson(body)) = "raise" THEN "raise"
    ELSE IF EndpointMissing(env) THEN "config"
    ELSE "proceed"

\* lines 48-105: from the method check to the built request_body
Prepare ==
    /\ pc = "handle"
    /\ UNCHANGED <<environ, req, upstream, postCalls>>
    /\ LET decision == Decide(req.method, req.body, environ)
           body_json == GetJson(req.body)
       IN  IF decision = "options" THEN Return(OptionsResponse)
           ELSE IF decision = "405" THEN Return(MethodNotAllowedResponse)
           ELSE IF decision = "400" THEN Return(BadRequestResponse)
           ELSE IF decision = "raise" THEN Raise("TypeError", cred)
           ELSE IF decision = "config" THEN Return(ConfigErrorResponse)
           ELSE \E found \in {"ok", "error"}, uuid4 \in SessionIds :
                    IF found = "error" THEN Raise("DefaultCredentialsError", found)
                    ELSE /\ cred' = found
                         /\ sid' = uuid4
                         /\ apiUrl' = ApiUrl(environ)
                         /\ message' = FormatAgentMessage(
                                GetKey(body_json.m, <<"query">>),
                                GetKey(body_json.m, <<"constraint">>), uuid4)
                         /\ pc' = "call"
                         /\ UNCHANGED <<resp, exc>>

\* session.post repeated once after a transport error
CallUpstream_Retry ==
    /\ pc = "call"
    /\ \E first \in UpstreamOutcomes, second \in UpstreamOutcomes :
           /\ upstream' = IF first.kind = "neterr" THEN second ELSE first
           /\ postCalls' = postCalls + (IF first.kind = "neterr" THEN 2 ELSE 1)
    /\ pc' = "process"
    /\ UNCHANGED <<environ, req, cred, sid, message, apiUrl, resp, exc>>

\* line 109: session.post(API_URL, json=request_body)
CallUpstream ==
    /\ pc = "call"
    /\ \E o \in UpstreamOutcomes : upstream' = o
    /\ postCalls' = postCalls + 1
    /\ pc' = "process"
    /\ UNCHANGED <<environ, req, cred, sid, message, apiUrl, resp, exc>>

\* lines 114-183: the rest of the try block and the except block
ProcessResponse ==
    /\ pc = "process"
    /\ resp' = HandleUpstream(upstream, apiUrl)
    /\ pc' = "done"
    /\ UNCHANGED <<environ, req, cred, sid, message, apiUrl, upstream, postCalls, exc>>

Init ==
    /\ environ \in Environs
    /\ pc = "idle"
    /\ req = [method |-> "", body |-> NotJson]
    /\ cred = "unset"
    /\ sid = <<>>
    /\ message = <<>>
    /\ apiUrl = <<>>
    /\ upstream = NoUpstream
    /\ postCalls = 0
    /\ resp = NoResponse
    /\ exc = ""

Next == Receive \/ Prepare \/ CallUpstream \/ ProcessResponse

Spec == Init /\ [][Next]_vars

\* The extraction alone: a configured request whose upstream call returned
\* 200 with {"output": <string>}, for every string within the bound.
InitExtract ==
    /\ environ = {<<"VERTEX_AGENT_ID", AgentId>>}
    /\ pc = "process"
    /\ req = [method |-> "POST",
              body |-> JsonBody(Payload(JStr(<<"soup">>), JStr(<<"vegan">>)))]
    /\ cred = "ok"
    /\ sid = <<"s1">>
    /\ message = FormatAgentMessage(JStr(<<"soup">>), JStr(<<"vegan">>), sid)
    /\ apiUrl = ApiUrl(environ)
    /\ \E s \in OutputStrings :
           upstream = UpstreamResponse(200, <<"body text">>, OutputData(JStr(s)))
    /\ postCalls = 1
    /\ resp = NoResponse
    /\ exc = ""

SpecExtract == InitExtract /\ [][ProcessResponse]_vars

\* The formatter alone: a configured POST of {"query": q, "constraint": c}
\* for every query string within the bound.
InitFormat ==
    /\ environ = {<<"VERTEX_AGENT_ID", AgentId>>}
    /\ pc = "handle"
    /\ \E q \in QueryStrings, c \in {<<>>, <<"vegan">>} :
           req = [method |-> "POST", body |-> JsonBody(Payload(JStr(q), JStr(c)))]
    /\ cred = "unset"
    /\ sid = <<>>
    /\ message = <<>>
    /\ apiUrl = <<>>
    /\ upstream = NoUpstream
    /\ postCalls = 0
    /\ resp = NoResponse
    /\ exc = ""

SpecFormat == InitFormat /\ [][Prepare]_vars

\* ================================================================ claims
\* what the claims speak of, stated on the request and the outcome alone
IsPost == req.method = "POST"
BodyHasBothKeys ==
    /\ req.body.json
    /\ req.body.v.t = "obj"
    /\ \E i \in 1..Len(req.body.v.m) : req.body.v.m[i].k = <<"query">>
    /\ \E i \in 1..Len(req.body.v.m) : req.body.v.m[i].k = <<"constraint">>
Configured == \E e \in environ : e[1] = "VERTEX_AGENT_ID" /\ e[2] # <<>>
Upstream2xx ==
    upstream.kind = "resp" /\ upstream.status >= 200 /\ upstream.status <= 299
UpstreamNon2xx == upstream.kind = "resp" /\ ~Upstream2xx
HasHeader(name, value) == <<name, value>> \in resp.headers
BodyJson == JsonLoads(resp.body)
BodyIsObject == BodyJson.ok /\ BodyJson.v.t = "obj"
BodyField(k) == GetKey(BodyJson.v.m, <<k>>)
BodyHasField(k) == BodyIsObject /\ HasKey(BodyJson.v.m, <<k>>)
AttemptedUrl ==
    <<"https://us-central1-aiplatform.googleapis.com/v1/">>
    \o (CHOOSE e \in environ : e[1] = "VERTEX_AGENT_ID")[2] \o <<":query">>

\* the upstream `output` when the upstream body is {"output": <string>}
OutputIsString ==
    /\ Upstream2xx
    /\ upstream.data.json
    /\ upstream.data.v.t = "obj"
    /\ Len(upstream.data.v.m) = 1
    /\ upstream.data.v.m[1].k = <<"output">>
    /\ upstream.data.v.m[1].v.t = "str"
OutputText == upstream.data.v.m[1].v.s
Opens(s) == {i \in 1..Len(s) : s[i] = "{"}
Closes(s) == {i \in 1..Len(s) : s[i] = "}"}
FirstOpen(s) == CHOOSE i \in Opens(s) : \A j \in Opens(s) : i <= j
LastClose(s) == CHOOSE i \in Closes(s) : \A j \in Closes(s) : i >= j
\* a '{' occurs before the last '}'
HasSpan(s) == Opens(s) # {} /\ Closes(s) # {} /\ FirstOpen(s) < LastClose(s)
\* the text from the first '{' to the last '}', both included
OutermostSpan(s) == [k \in 1..(LastClose(s) - FirstOpen(s) + 1) |-> s[FirstOpen(s) + k - 1]]
SpanParses(s) == HasSpan(s) /\ JsonLoads(OutermostSpan(s)).ok

\* C1: a POST whose body is not JSON, or whose JSON body lacks `query` or
\* `constraint` (whatever its JSON type), is answered 400 with the fixed
\* error message, with no exception leaving the handler and no upstream call.
C1_MissingKeysGive400 ==
    (pc = "done" /\ IsPost /\ ~BodyHasBothKeys)
        => /\ exc = ""
           /\ resp.status = 400
           /\ BodyJson.ok
           /\ BodyJson.v = JObj(<<Member(<<"error">>,
                  JStr(<<"Missing 'query' or 'constraint' in JSON body.">>))>>)
           /\ postCalls = 0

\* C2: whenever the upstream POST returned a 2xx response, whatever its
\* body, the handler answers 200; a 500 is produced only when the
\* configuration is missing, the call failed at transport level or the
\* upstream status was not 2xx.
C2_UpstreamRespondedGives200 ==
    pc = "done"
        => /\ Upstream2xx => resp.status = 200
           /\ resp.status = 500
                  => (~Configured \/ upstream.kind = "neterr" \/ UpstreamNon2xx)

\* C3 as stated: every response, for every method and outcome, carries
\* Content-Type: application/json and Access-Control-Allow-Origin: *.
C3_EveryResponseCarriesBothHeaders ==
    resp # NoResponse
        => /\ HasHeader("Content-Type", "application/json")
           /\ HasHeader("Access-Control-Allow-Origin", "*")

\* C3 as amended: every response to a POST (200, 400, 500) carries both
\* headers; the OPTIONS preflight carries Access-Control-Allow-Origin: *
\* but no Content-Type: application/json; the 405 carries neither.
C3_HeadersByMethod ==
    resp # NoResponse
        => /\ IsPost => /\ HasHeader("Content-Type", "application/json")
                        /\ HasHeader("Access-Control-Allow-Origin", "*")
           /\ req.method = "OPTIONS"
                  => /\ ~HasHeader("Content-Type", "application/json")
                     /\ HasHeader("Access-Control-Allow-Origin", "*")
           /\ req.method \notin {"POST", "OPTIONS"}
                  => /\ resp.status = 405
                     /\ ~HasHeader("Content-Type", "application/json")
                     /\ ~HasHeader("Access-Control-Allow-Origin", "*")

C3_Witness ==
    /\ pc = "done"
    /\ IsPost
    /\ resp.status = 400
    /\ HasHeader("Content-Type", "application/json")
    /\ HasHeader("Access-Control-Allow-Origin", "*")

\* C4: a valid POST (both keys present) handled while VERTEX_AGENT_ID is
\* unset or empty is answered 500 with the Configuration Error body, and at
\* no point of that request is a credential looked up or an upstream call
\* made.
C4_MissingConfigGives500NoCall ==
    (pc # "idle" /\ IsPost /\ BodyHasBothKeys /\ ~Configured)
        => /\ cred = "unset"
           /\ postCalls = 0
           /\ upstream = NoUpstream
           /\ pc \in {"handle", "done"}
           /\ pc = "done"
                  => /\ exc = ""
                     /\ resp.status = 500
                     /\ BodyJson.ok
                     /\ BodyJson.v = JObj(<<Member(<<"error">>,
                            JStr(<<"Configuration Error: Agent ID environment variable (VERTEX_AGENT_ID) not set. Check deployment command.">>))>>)

C4_Witness ==
    /\ pc = "done"
    /\ IsPost
    /\ BodyHasBothKeys
    /\ environ = {<<"VERTEX_AGENT_ID", <<>>>>}
    /\ resp.status = 500

\* C5: for a valid, configured POST, a failure to reach or invoke the
\* upstream (credential acquisition error, network error during the POST,
\* non-2xx status) is answered 500 with a JSON body holding `error`,
\* `details` and `api_url` = <baseURL><VERTEX_AGENT_ID>:query, plus
\* `api_response` when an upstream response was received; no exception
\* leaves the handler.
C5_UpstreamFailureGives500 ==
    (/\ pc = "done" /\ IsPost /\ BodyHasBothKeys /\ Configured
     /\ (cred = "error" \/ upstream.kind = "neterr" \/ UpstreamNon2xx))
        => /\ exc = ""
           /\ resp.status = 500
           /\ BodyHasField("error")
           /\ BodyHasField("details")
           /\ BodyHasField("api_url")
           /\ BodyField("api_url") = JStr(AttemptedUrl)
           /\ UpstreamNon2xx => BodyHasField("api_response")

\* C6: for an `output` string in which a '{' occurs before the last '}' and
\* whose text from the first '{' to the last '}' parses as JSON, the
\* response is 200 and its body is the parse of exactly that outermost
\* span, also when the string holds several brace-delimited regions.
C6_BodyIsParseOfOutermostSpan ==
    (pc = "done" /\ OutputIsString /\ SpanParses(OutputText))
        => LET parsed == JsonLoads(resp.body)
           IN  /\ resp.status = 200
               /\ parsed.ok
               /\ parsed.v = JsonLoads(OutermostSpan(OutputText)).v

\* several '}' in the output, the first one closing no JSON value
C6_Witness ==
    /\ pc = "done"
    /\ OutputIsString
    /\ SpanParses(OutputText)
    /\ Cardinality(Closes(OutputText)) >= 2
    /\ ~JsonLoads(SubSeq(OutputText, FirstOpen(OutputText),
                         CHOOSE i \in Closes(OutputText) :
                             \A j \in Closes(OutputText) : i <= j)).ok
    /\ resp.status = 200

\* the 200 body is {response: <the output, unchanged>, note: <note>}
IsFallback(note) ==
    LET parsed == JsonLoads(resp.body)
    IN  /\ resp.status = 200
        /\ parsed.ok
        /\ parsed.v.t = "obj"
        /\ Len(parsed.v.m) = 2
        /\ HasKey(parsed.v.m, <<"response">>)
        /\ GetKey(parsed.v.m, <<"response">>) = JStr(OutputText)
        /\ HasKey(parsed.v.m, <<"note">>)
        /\ GetKey(parsed.v.m, <<"note">>) = JStr(<<note>>)

SectionLines(label) ==
    LET ls == SplitLines(message)
    IN  {i \in 1..Len(ls) : Strip(ls[i]) = <<label>>}
Contains(text, part) ==
    \E i \in 0..(Len(text) - Len(part)) :
        \A k \in 1..Len(part) : text[i + k] = part[k]
QueryText == GetKey(req.body.v.m, <<"query">>).s

\* C8: for every query, constraint (the empty string included) and session
\* id, the prompt holds exactly one OBSERVE, one REFLECT and one LOOP
\* section, in that order, and holds the query text verbatim, newlines and
\* leading whitespace inside the query included.
C8_PromptHoldsQueryVerbatim ==
    (pc = "call" /\ BodyHasBothKeys)
        => /\ Cardinality(SectionLines("OBSERVE:")) = 1
           /\ Cardinality(SectionLines("REFLECT:")) = 1
           /\ Cardinality(SectionLines("LOOP:")) = 1
           /\ \A o \in SectionLines("OBSERVE:"), r \in SectionLines("REFLECT:"),
                 l \in SectionLines("LOOP:") : o < r /\ r < l
           /\ Contains(message, QueryText)

\* C9: one request issues at most one upstream POST: after the single
\* attempt, successful or failed, the handler only builds the response;
\* requests rejected by method, validation or configuration issue none.
C9_AtMostOneUpstreamCall ==
    /\ postCalls <= 1
    /\ postCalls = 1 => pc \in {"process", "done"}
    /\ pc = "process" => postCalls = 1 /\ resp = NoResponse
    /\ (pc = "done" /\ upstream # NoUpstream) => postCalls = 1 /\ resp # NoResponse
    /\ (pc = "done" /\ (~IsPost \/ ~BodyHasBothKeys \/ ~Configured)) => postCalls = 0

\* a failed attempt, answered without a second one
C9_Witness ==
    /\ pc = "done"
    /\ upstream.kind = "neterr"
    /\ postCalls = 1
    /\ resp.status = 500

\* C10: every OPTIONS request, whatever its body and whether or not
\* VERTEX_AGENT_ID is set, is answered 200 with an empty body and the CORS
\* headers (Allow-Origin: *, Allow-Methods, Allow-Headers), nothing else
\* having been done; every method other than OPTIONS and POST gets 405.
C10_OptionsAndOtherMethods ==
    pc = "done"
        => /\ req.method = "OPTIONS"
                  => /\ exc = ""
                     /\ resp.status = 200
                     /\ resp.body = <<>>
                     /\ HasHeader("Access-Control-Allow-Origin", "*")
                     /\ \E h \in resp.headers : h[1] = "Access-Control-Allow-Methods"
                     /\ \E h \in resp.headers : h[1] = "Access-Control-Allow-Headers"
                     /\ cred = "unset"
                     /\ postCalls = 0
           /\ req.method \notin {"OPTIONS", "POST"}
                  => exc = "" /\ resp.status = 405 /\ postCalls = 0

\* an OPTIONS request with a body that is not JSON, no agent id configured
C10_Witness ==
    /\ pc = "done"
    /\ req.method = "OPTIONS"
    /\ ~req.body.json
    /\ ~Configured
    /\ resp.status = 200

====
